---- MODULE Spec2Model ----
(***************************************************************************)
(* A model of the quartz entity-component store: World (src/src/lib.rs)    *)
(* over Entities (entity.rs), Components (component.rs), Tables and        *)
(* Columns (storage.rs), Archetypes (archetype.rs) and Query (query.rs).   *)
(*                                                                         *)
(* Ids and rows are 0-based as in the source; a Vec is a sequence, so the  *)
(* element with index i is seq[i + 1].  An Option is a sequence of length  *)
(* 0 (None) or 1 (Some).                                                   *)
(***************************************************************************)
EXTENDS Integers, Sequences, FiniteSets, Bags, TLC

\* Bound of the model: the number of spawns in one behaviour.
MaxSpawns == 2

\* Bound of the model: the number of components written through get_mut.
MaxWrites == 1
MaxOpen == 2
MaxCapacity == 3

\* A u32 is kept at its width as two 16-bit limbs <<high, low>>.
Limb == 65536

None == << >>
Some(x) == << x >>

Min(a, b) == IF a < b THEN a ELSE b
Max(a, b) == IF a < b THEN b ELSE a

\* The element with (0-based) index i of a Vec.
At(vec, i) == vec[i + 1]

\* Vec::swap_remove: the last element takes the place of the removed one.
VecSwapRemove(vec, i) ==
    LET last == Len(vec) - 1
    IN  [k \in 1..last |-> IF k = i + 1 /\ i # last THEN vec[last + 1] ELSE vec[k]]

\* Vec::reserve(additional), as RawVec grows: nothing when the spare capacity
\* suffices, else the larger of twice the capacity and the required one, and
\* never less than the smallest non-zero capacity of the element type.
VecReserve(cap, len, additional, min_cap) ==
    IF cap - len >= additional THEN cap
    ELSE Max(min_cap, Max(2 * cap, len + additional))

-----------------------------------------------------------------------------
(* Generation = u32 *)

U32Zero == << 0, 0 >>
U32Max == << Limb - 1, Limb - 1 >>

U32Lt(a, b) == a[1] < b[1] \/ (a[1] = b[1] /\ a[2] < b[2])

\* a + 1 modulo 2^32: what `+= 1` yields without overflow checks.
U32WrappingInc(a) ==
    IF a[2] < Limb - 1 THEN << a[1], a[2] + 1 >>
    ELSE IF a[1] < Limb - 1 THEN << a[1] + 1, 0 >>
    ELSE U32Zero

-----------------------------------------------------------------------------
(* Component types of the host application *)

Types == {"MyComponent", "Position"}

\* The component types of component.rs's tests.
RegistryTypes == {"u32", "MyComponent", "u8", "Position"}

\* Layout::new::<T>().size(): MyComponent(u32), Position {x, y, z: f32}.
SizeOf(T) ==
    CASE T = "MyComponent" -> 4
      [] T = "Position" -> 12
      [] T = "u32" -> 4
      [] T = "u8" -> 1
      [] T = "Guard" -> 4

\* mem::needs_drop::<T>(): the types of the tests are plain data; Guard is a
\* component that implements Drop (struct Guard(u32); impl Drop for Guard).
NeedsDrop(T) == T = "Guard"

\* The component types of the stores whose values have destructors.
DropTypes == {"Guard", "MyComponent"}
DropShapes == {<< t >> : t \in DropTypes} \cup {<< t, u >> : t \in DropTypes, u \in DropTypes}

\* A bundle is one component value or a pair of them; its shape is the
\* sequence of its component types, in the order of the call site.
BundleShapes == {<< t >> : t \in Types} \cup {<< t, u >> : t \in Types, u \in Types}

\* The value of the component at position pos of the bundle of spawn number
\* serial: every stored value is distinct, as in the tests' MyComponent(i).
Value(serial, pos) == [serial |-> serial, pos |-> pos]

\* Bytes that no write of the program determined.
Garbage == [serial |-> 0, pos |-> 0]

-----------------------------------------------------------------------------
(* entity.rs *)

Entity(generation, index) == [generation |-> generation, index |-> index]

EntityLocation(archetype_id, table_id, table_row) ==
    [archetype_id |-> archetype_id, table_id |-> table_id, table_row |-> table_row]

Free(next_free, generation) ==
    [tag |-> "Free", next_free |-> next_free, generation |-> generation]

Occupied(loc, generation) ==
    [tag |-> "Occupied", loc |-> loc, generation |-> generation]

EntitiesNew == [entities |-> << >>, free_head |-> 0, len |-> 0]

\* The slot alloc looks at: entities.get_mut(free_head).
AllocSlot(E) ==
    IF E.free_head < Len(E.entities) THEN Some(At(E.entities, E.free_head)) ELSE None

\* alloc panics when the head of the free list is an Occupied slot.
AllocCorrupt(E) == AllocSlot(E) # None /\ AllocSlot(E)[1].tag # "Free"

\* AllocEntity that numbers a new slot from one.
AllocEntityFromOne(E) ==
    IF AllocSlot(E) # None
    THEN Entity(AllocSlot(E)[1].generation, E.free_head)
    ELSE Entity(U32Zero, Len(E.entities) + 1)

\* The entity alloc hands to the closure.
AllocEntity(E) ==
    IF AllocSlot(E) # None
    THEN Entity(AllocSlot(E)[1].generation, E.free_head)
    ELSE Entity(U32Zero, Len(E.entities))

\* AllocCommit with the slot reserved before the closure is consulted: on Err
\* the free slot is already off the list, or the new entity already counted.
AllocCommitEager(E, result) ==
    IF AllocSlot(E) # None
    THEN [entities |-> IF result = None THEN E.entities
                       ELSE [E.entities EXCEPT ![E.free_head + 1] =
                                Occupied(result[1], AllocSlot(E)[1].generation)],
          free_head |-> AllocSlot(E)[1].next_free,
          len |-> E.len + 1]
    ELSE [entities |-> IF result = None THEN E.entities
                       ELSE Append(E.entities, Occupied(result[1], U32Zero)),
          free_head |-> IF result = None THEN E.free_head ELSE Len(E.entities) + 1,
          len |-> E.len + 1]

\* alloc once the closure returned: Ok(loc) commits, Err changes nothing.
AllocCommit(E, result) ==
    IF result = None THEN E
    ELSE IF AllocSlot(E) # None
    THEN [entities |-> [E.entities EXCEPT ![E.free_head + 1] =
                            Occupied(result[1], AllocSlot(E)[1].generation)],
          free_head |-> AllocSlot(E)[1].next_free,
          len |-> E.len + 1]
    ELSE [entities |-> Append(E.entities, Occupied(result[1], U32Zero)),
          free_head |-> Len(E.entities) + 1,
          len |-> E.len + 1]

\* What alloc returns: Ok(entity) when the closure returned Ok, else Err(()).
AllocReturn(E, result) == IF result = None THEN None ELSE Some(AllocEntity(E))

\* EntitiesGet without the comparison of generations.
EntitiesGetAnyGeneration(E, entity) ==
    IF entity.index < Len(E.entities)
       /\ At(E.entities, entity.index).tag = "Occupied"
    THEN Some(At(E.entities, entity.index).loc)
    ELSE None

EntitiesGet(E, entity) ==
    IF entity.index < Len(E.entities)
       /\ At(E.entities, entity.index).tag = "Occupied"
       /\ At(E.entities, entity.index).generation = entity.generation
    THEN Some(At(E.entities, entity.index).loc)
    ELSE None

\* EntitiesSet without its effect: a despawn that does not repair the moved
\* entity's location.
EntitiesSetSkipped(E, entity, location) == E

\* EntitiesSet that also sends the entity to the next table.
EntitiesSetNextTable(E, entity, location) ==
    IF EntitiesGet(E, entity) # None
    THEN [E EXCEPT !.entities[entity.index + 1].loc =
             [location EXCEPT !.table_id = @ + 1]]
    ELSE E

EntitiesSet(E, entity, location) ==
    IF EntitiesGet(E, entity) # None
    THEN [E EXCEPT !.entities[entity.index + 1].loc = location]
    ELSE E

\* FreeHits without the comparison of generations.
FreeHitsAnyGeneration(E, entity) ==
    /\ entity.index < Len(E.entities)
    /\ At(E.entities, entity.index).tag = "Occupied"

\* free reaches the increment of the generation.
FreeHits(E, entity) ==
    /\ entity.index < Len(E.entities)
    /\ At(E.entities, entity.index).generation = entity.generation
    /\ At(E.entities, entity.index).tag = "Occupied"

\* `*generation += 1` panics on overflow when overflow checks are compiled in.
FreePanics(E, entity, checks) ==
    FreeHits(E, entity) /\ checks /\ entity.generation = U32Max

FreeResult(E, entity) ==
    IF FreeHits(E, entity) THEN Some(At(E.entities, entity.index).loc) ELSE None

\* EntitiesFree that ends the free list at the freed slot instead of linking
\* it in front of the old head.
EntitiesFreeUnlinked(E, entity) ==
    IF FreeHits(E, entity)
    THEN [entities |-> [E.entities EXCEPT ![entity.index + 1] =
                            Free(Len(E.entities), U32WrappingInc(entity.generation))],
          free_head |-> entity.index,
          len |-> E.len - 1]
    ELSE E

\* EntitiesFree that counts a stale handle's free as well.
EntitiesFreeCountsStale(E, entity) ==
    IF FreeHits(E, entity)
    THEN [entities |-> [E.entities EXCEPT ![entity.index + 1] =
                            Free(E.free_head, U32WrappingInc(entity.generation))],
          free_head |-> entity.index,
          len |-> E.len - 1]
    ELSE [E EXCEPT !.len = @ - 1]

\* EntitiesFree that raises the slot's generation for a stale handle too.
EntitiesFreeStaleBumps(E, entity) ==
    IF FreeHits(E, entity)
    THEN [entities |-> [E.entities EXCEPT ![entity.index + 1] =
                            Free(E.free_head, U32WrappingInc(entity.generation))],
          free_head |-> entity.index,
          len |-> E.len - 1]
    ELSE IF entity.index < Len(E.entities)
    THEN [E EXCEPT !.entities[entity.index + 1].generation = U32WrappingInc(@)]
    ELSE E

EntitiesFree(E, entity) ==
    IF FreeHits(E, entity)
    THEN [entities |-> [E.entities EXCEPT ![entity.index + 1] =
                            Free(E.free_head, U32WrappingInc(entity.generation))],
          free_head |-> entity.index,
          len |-> E.len - 1]
    ELSE E

-----------------------------------------------------------------------------
(* component.rs *)

ComponentInfo(id, T) == [id |-> id, type |-> T, size |-> SizeOf(T), drop |-> NeedsDrop(T)]

ComponentsNew == [components |-> << >>, indices |-> [T \in {} |-> 0]]

\* Components::component_id::<T>(): indices.get(&TypeId::of::<T>()).
ComponentIdOf(C, T) ==
    IF T \in DOMAIN C.indices THEN Some(C.indices[T]) ELSE None

\* RegisterComponent that pushes an entry on every call.
RegisterComponentAgain(C, T) ==
    [components |-> Append(C.components, ComponentInfo(Len(C.components), T)),
     indices |-> [U \in DOMAIN C.indices \cup {T} |->
                     IF U = T THEN Len(C.components) ELSE C.indices[U]]]

\* register_component::<T>(): the id `indices` holds, or else the next dense
\* id, with its info pushed and its entry inserted.
RegisterComponent(C, T) ==
    IF T \in DOMAIN C.indices THEN C
    ELSE [components |-> Append(C.components, ComponentInfo(Len(C.components), T)),
          indices |-> [U \in DOMAIN C.indices \cup {T} |->
                          IF U = T THEN Len(C.components) ELSE C.indices[U]]]

\* What register_component::<T>() returns: the entry of `indices` after it.
RegisterReturn(C, T) == ComponentIdOf(RegisterComponent(C, T), T)[1]

GetInfo(C, id) == IF id < Len(C.components) THEN Some(At(C.components, id)) ELSE None

\* Bundle::component_ids: registers the types in bundle order; the registry after it.
RECURSIVE BundleRegister(_, _)
BundleRegister(C, shape) ==
    IF shape = << >> THEN C
    ELSE BundleRegister(RegisterComponent(C, Head(shape)), Tail(shape))

\* The ids Bundle::component_ids hands to the callback, in bundle order.
BundleComponentIds(C, shape) ==
    [k \in 1..Len(shape) |-> ComponentIdOf(BundleRegister(C, shape), shape[k])[1]]

\* component_ids.sort_unstable() on the one or two ids of a bundle.
SortUnstable(ids) ==
    IF Len(ids) = 2 /\ ids[2] < ids[1] THEN << ids[2], ids[1] >> ELSE ids

-----------------------------------------------------------------------------
(* storage.rs: Column *)

\* Vec<u8>'s smallest non-zero capacity, and Vec<Entity>'s.
MinNonZeroCapBytes == 8
MinNonZeroCapEntities == 4

\* Column::new: an empty Vec; mem[i + 1] is what the item_layout.size() bytes
\* at byte offset i * size of the buffer's address hold (also past the
\* allocation, where the unchecked accessors reach).
ColumnNew(info) ==
    [size |-> info.size, drop |-> info.drop, data_len |-> 0, data_cap |-> 0, mem |-> << >>]

\* Column::with_capacity
ColumnWithCapacity(info, capacity) ==
    IF capacity # 0
    THEN [ColumnNew(info) EXCEPT
            !.data_cap = VecReserve(0, 0, capacity * info.size, MinNonZeroCapBytes)]
    ELSE ColumnNew(info)

\* The slot of item `index` lies within the allocation of `data`.
InAllocation(col, index) == index >= 0 /\ (index + 1) * col.size <= col.data_cap

\* Column::capacity: data.capacity() / item_layout.size()
ColumnCapacity(col) == col.data_cap \div col.size

\* Column::len: data.len() / item_layout.size()
ColumnLen(col) == col.data_len \div col.size

\* ColumnReserve whose reallocation copies nothing.
ColumnReserveFresh(col, additional) ==
    LET cap == VecReserve(col.data_cap, col.data_len, additional * col.size,
                          MinNonZeroCapBytes)
    IN  IF cap = col.data_cap THEN col
        ELSE [col EXCEPT !.data_cap = cap,
                         !.mem = [k \in 1..Len(col.mem) |-> Garbage]]

\* Column::reserve: data.reserve(additional * size). A reallocation keeps the
\* bytes of the old allocation only.
ColumnReserve(col, additional) ==
    LET cap == VecReserve(col.data_cap, col.data_len, additional * col.size,
                          MinNonZeroCapBytes)
    IN  IF cap = col.data_cap THEN col
        ELSE [col EXCEPT !.data_cap = cap,
                         !.mem = [k \in 1..Len(col.mem) |->
                                    IF InAllocation(col, k - 1) THEN col.mem[k] ELSE Garbage]]

\* The cell at `index` set to `cell`, the buffer padded up to it.
MemWrite(mem, index, cell) ==
    [k \in 1..Max(Len(mem), index + 1) |->
        IF k = index + 1 THEN cell ELSE IF k <= Len(mem) THEN mem[k] ELSE Garbage]

\* What memory holds after initialize_unchecked copied `value` to item
\* `index`: the value when the slot is inside the allocation; the copy is out
\* of bounds otherwise, and a later read finds the value or other bytes.
InitializeOutcomes(col, index, value) ==
    IF InAllocation(col, index) THEN {value} ELSE {value, Garbage}

\* Column::initialize_unchecked, with `landed` what the slot holds afterwards.
\* data.len() is not changed.
InitializeUnchecked(col, index, landed) ==
    [col EXCEPT !.mem = MemWrite(col.mem, index, landed)]

\* Column::get_unchecked(index), dereferenced.
GetUnchecked(col, index) ==
    IF index >= 0 /\ index < Len(col.mem) THEN At(col.mem, index) ELSE Garbage

\* `len - size` in drop_last underflows (panics with overflow checks).
DropLastUnderflows(col) == ColumnLen(col) < col.size

\* drop_last passes the item at index len (not len - 1) to the destructor.
DropLastTarget(col) == ColumnLen(col)

\* Column::drop_last without overflow checks: data.truncate(len - size), where
\* a wrapped difference exceeds data.len() and truncates nothing.
ColumnDropLast(col) ==
    IF DropLastUnderflows(col) THEN col
    ELSE [col EXCEPT !.data_len = Min(col.data_len, ColumnLen(col) - col.size)]

\* `self.len() - 1` in swap_remove underflows (panics with overflow checks,
\* in the debug_assert_ne and again in the swap).
SwapRemoveUnderflows(col) == ColumnLen(col) = 0

\* The item swap_remove exchanges with `index`: len - 1, which wraps to the
\* item before the buffer when len is 0.
SwapRemovePartner(col) == ColumnLen(col) - 1

\* Column::swap_remove: exchanges the bytes of `index` and of the partner;
\* `incoming` is what the partner's bytes were. Nothing is dropped and
\* data.len() is not changed (drop_last is commented out).
ColumnSwapRemove(col, index, incoming) ==
    LET partner == SwapRemovePartner(col)
        moved == GetUnchecked(col, index)
        first == [col EXCEPT !.mem = MemWrite(col.mem, index, incoming)]
    IN  IF partner >= 0
        THEN [first EXCEPT !.mem = MemWrite(first.mem, partner, moved)]
        ELSE first

\* The cell drop_last hands to the destructor, when the column has one.
ColumnDropLastDrops(col) ==
    IF col.drop THEN SetToBag({GetUnchecked(col, DropLastTarget(col))}) ELSE EmptyBag

\* The cells Column::clear hands to the destructor: items 0..len.
RECURSIVE ColumnClearDrops(_, _)
ColumnClearDrops(col, i) ==
    IF ~col.drop \/ i >= ColumnLen(col) THEN EmptyBag
    ELSE SetToBag({GetUnchecked(col, i)}) (+) ColumnClearDrops(col, i + 1)

\* Drop for Column: clear, unless capacity() is 0.
ColumnDropDrops(col) ==
    IF col.data_cap \div col.size # 0 THEN ColumnClearDrops(col, 0) ELSE EmptyBag

-----------------------------------------------------------------------------
(* storage.rs: Table and Tables *)

\* Table::from_components: one empty column per id (a repeated id inserts
\* over the same key).
TableFromComponents(ids, C) ==
    [columns |-> [id \in {ids[k] : k \in 1..Len(ids)} |->
                    ColumnWithCapacity(GetInfo(C, id)[1], 0)],
     entities |-> << >>,
     entities_cap |-> 0]

TableLen(table) == Len(table.entities)

\* Table::reserve: when the entity list is full, it and every column reserve.
TableReserve(table, additional) ==
    IF table.entities_cap - TableLen(table) < additional
    THEN [table EXCEPT
            !.entities_cap = VecReserve(table.entities_cap, TableLen(table), additional,
                                        MinNonZeroCapEntities),
            !.columns = [id \in DOMAIN table.columns |->
                            ColumnReserve(table.columns[id], additional)]]
    ELSE table

\* TableAllocate that reserves the row and leaves the entity out of the list.
TableAllocateReserved(table, entity) == TableReserve(table, 1)

\* Table::allocate: the table after it; the row it returns is the old length.
TableAllocate(table, entity) ==
    [TableReserve(table, 1) EXCEPT !.entities = Append(@, entity)]

\* Table::get_component: the column's cell, None without such a column.
TableGetComponent(table, id, row) ==
    IF id \in DOMAIN table.columns THEN Some(GetUnchecked(table.columns[id], row)) ELSE None

\* Column::get_unchecked_mut(index): the item the pointer is at.
GetUncheckedMut(col, index) == index

\* Table::get_component_mut: the row of the column's item, None without
\* such a column.
TableGetComponentMut(table, id, row) ==
    IF id \in DOMAIN table.columns THEN Some(GetUncheckedMut(table.columns[id], row)) ELSE None

\* What the item holds after an assignment through the pointer: the value
\* inside the allocation; outside it the write is out of bounds.
DerefMutOutcomes(col, index, value) ==
    IF InAllocation(col, index) THEN {value} ELSE {value, Garbage}

DerefMutWrite(col, index, landed) ==
    [col EXCEPT !.mem = MemWrite(col.mem, index, landed)]

\* Table::swap_remove takes the drop_last branch.
RemovesLast(table, row) == row = TableLen(table) - 1

\* Table::swap_remove panics when overflow checks are compiled in and a
\* column's length arithmetic underflows.
TableSwapRemovePanics(table, row, checks) ==
    \/ row >= TableLen(table)
    \/ /\ checks
       /\ \E id \in DOMAIN table.columns :
             IF RemovesLast(table, row) THEN DropLastUnderflows(table.columns[id])
             ELSE SwapRemoveUnderflows(table.columns[id])

\* Table::swap_remove reaches outside a column's allocation.
TableSwapRemoveOutOfBounds(table, row) ==
    /\ ~RemovesLast(table, row)
    /\ \E id \in DOMAIN table.columns :
          ~InAllocation(table.columns[id], SwapRemovePartner(table.columns[id]))

\* What each column's swap partner holds: the item's cell when it is inside
\* the allocation, undetermined bytes otherwise.
TableSwapIncoming(table) ==
    [id \in DOMAIN table.columns |->
        IF InAllocation(table.columns[id], SwapRemovePartner(table.columns[id]))
        THEN GetUnchecked(table.columns[id], SwapRemovePartner(table.columns[id]))
        ELSE Garbage]

\* Table::swap_remove where it does not panic.
TableSwapRemove(table, row) ==
    [table EXCEPT
        !.columns = [id \in DOMAIN table.columns |->
                        IF RemovesLast(table, row) THEN ColumnDropLast(table.columns[id])
                        ELSE ColumnSwapRemove(table.columns[id], row,
                                              TableSwapIncoming(table)[id])],
        !.entities = VecSwapRemove(table.entities, row)]

\* The cells drop_last hands to destructors over the columns `ids`.
RECURSIVE TableDropLastDrops(_, _)
TableDropLastDrops(table, ids) ==
    IF ids = {} THEN EmptyBag
    ELSE LET id == CHOOSE x \in ids : TRUE
         IN  ColumnDropLastDrops(table.columns[id]) (+) TableDropLastDrops(table, ids \ {id})

\* The destructor calls of Table::swap_remove, one bag per outcome. A row
\* that is not the last is swapped and nothing is dropped. For the last row
\* every column runs drop_last; with overflow checks the loop (in the
\* HashMap's order) ends at the first column whose `len - size` underflows,
\* after that column's destructor call.
TableSwapRemoveDrops(table, row, checks) ==
    LET under == {id \in DOMAIN table.columns : DropLastUnderflows(table.columns[id])}
    IN  IF ~RemovesLast(table, row) THEN {EmptyBag}
        ELSE IF checks /\ under # {}
        THEN {TableDropLastDrops(table, before \cup {stop}) :
                stop \in under, before \in SUBSET (DOMAIN table.columns \ under)}
        ELSE {TableDropLastDrops(table, DOMAIN table.columns)}

\* Drop for Table: every column is dropped.
RECURSIVE TableDropDrops(_, _)
TableDropDrops(table, ids) ==
    IF ids = {} THEN EmptyBag
    ELSE LET id == CHOOSE x \in ids : TRUE
         IN  ColumnDropDrops(table.columns[id]) (+) TableDropDrops(table, ids \ {id})

TablesNew == [tables |-> << >>, table_index |-> [ids \in {} |-> 0]]

\* Tables::get_id_or_insert: the id and whether the key was new.
TablesId(TS, ids) ==
    IF ids \in DOMAIN TS.table_index THEN TS.table_index[ids] ELSE Len(TS.tables)

TablesGetIdOrInsert(TS, ids, C) ==
    IF ids \in DOMAIN TS.table_index THEN TS
    ELSE [tables |-> Append(TS.tables, TableFromComponents(ids, C)),
          table_index |-> [k \in DOMAIN TS.table_index \cup {ids} |->
                              IF k = ids THEN Len(TS.tables) ELSE TS.table_index[k]]]

\* Drop for Tables: the tables i.. of the Vec are dropped.
RECURSIVE TablesDropDrops(_, _)
TablesDropDrops(TS, i) ==
    IF i >= Len(TS.tables) THEN EmptyBag
    ELSE TableDropDrops(At(TS.tables, i), DOMAIN At(TS.tables, i).columns)
            (+) TablesDropDrops(TS, i + 1)

\* Tables::get
TablesGet(TS, id) == IF id < Len(TS.tables) THEN Some(At(TS.tables, id)) ELSE None

\* Tables::get_mut
TablesGetMut(TS, id) == IF id < Len(TS.tables) THEN Some(At(TS.tables, id)) ELSE None

-----------------------------------------------------------------------------
(* archetype.rs *)

EntityRecord(entity, row) == [entity |-> entity, row |-> row]

ArchetypeNew(id, table, component_ids) ==
    [id |-> id, table |-> table, entities |-> << >>,
     components |-> {component_ids[k] : k \in 1..Len(component_ids)}]

\* The debug_assert of Archetype::allocate fails.
ArchetypeAllocatePanics(archetype, table_row, checks) ==
    checks /\ Len(archetype.entities) # table_row

\* ArchetypeAllocate that keeps no record of the entity.
ArchetypeAllocateUnrecorded(archetype, entity, table_row) == archetype

ArchetypeAllocate(archetype, entity, table_row) ==
    [archetype EXCEPT !.entities = Append(@, EntityRecord(entity, table_row))]

\* ArchetypeLocation with the row after the one allocated.
ArchetypeLocationNextRow(archetype, table_row) ==
    EntityLocation(archetype.id, archetype.table, table_row + 1)

\* The location Archetype::allocate returns.
ArchetypeLocation(archetype, table_row) ==
    EntityLocation(archetype.id, archetype.table, table_row)

\* Vec::swap_remove panics on an index that is not in the list.
ArchetypeSwapRemovePanics(archetype, row) == row >= Len(archetype.entities)

ArchetypeSwapRemove(archetype, row) ==
    [archetype EXCEPT !.entities = VecSwapRemove(@, row)]

\* The entity Archetype::swap_remove returns: the one moved into `row`.
ArchetypeSwapped(archetype, row) ==
    IF Len(archetype.entities) - 1 # row
    THEN Some(At(ArchetypeSwapRemove(archetype, row).entities, row).entity)
    ELSE None

\* IsSupersetOf that is content with one of the ids.
IsSupersetOfSome(archetype, sub) == sub \cap archetype.components # {}

IsSupersetOf(archetype, sub) == sub \subseteq archetype.components

ArchetypesNew ==
    [archetypes |-> << >>,
     archetype_index |-> [ids \in {} |-> 0],
     component_index |-> [id \in {} |-> {}]]

ArchetypesId(AS, ids) ==
    IF ids \in DOMAIN AS.archetype_index THEN AS.archetype_index[ids] ELSE Len(AS.archetypes)

\* get_id_or_insert that enters the new id into the bucket of its first
\* component id only.
ArchetypesGetIdOrInsertFirst(AS, table_id, ids) ==
    IF ids \in DOMAIN AS.archetype_index THEN AS
    ELSE LET id == Len(AS.archetypes)
             comps == {ids[1]}
         IN  [archetypes |-> Append(AS.archetypes, ArchetypeNew(id, table_id, ids)),
              archetype_index |-> [k \in DOMAIN AS.archetype_index \cup {ids} |->
                                      IF k = ids THEN id ELSE AS.archetype_index[k]],
              component_index |-> [c \in DOMAIN AS.component_index \cup comps |->
                                      (IF c \in DOMAIN AS.component_index
                                       THEN AS.component_index[c] ELSE {})
                                      \cup (IF c \in comps THEN {id} ELSE {})]]

\* Archetypes::get_id_or_insert: a new key gets the next id, which joins the
\* bucket of each of its component ids.
ArchetypesGetIdOrInsert(AS, table_id, ids) ==
    IF ids \in DOMAIN AS.archetype_index THEN AS
    ELSE LET id == Len(AS.archetypes)
             comps == {ids[k] : k \in 1..Len(ids)}
         IN  [archetypes |-> Append(AS.archetypes, ArchetypeNew(id, table_id, ids)),
              archetype_index |-> [k \in DOMAIN AS.archetype_index \cup {ids} |->
                                      IF k = ids THEN id ELSE AS.archetype_index[k]],
              component_index |-> [c \in DOMAIN AS.component_index \cup comps |->
                                      (IF c \in DOMAIN AS.component_index
                                       THEN AS.component_index[c] ELSE {})
                                      \cup (IF c \in comps THEN {id} ELSE {})]]

\* sort_unstable of a list of numbers: the ascending list of the same elements.
RECURSIVE SortAscending(_)
SortAscending(list) ==
    IF list = << >> THEN << >>
    ELSE LET least == CHOOSE k \in 1..Len(list) : \A j \in 1..Len(list) : list[k] <= list[j]
         IN  << list[least] >> \o
             SortAscending([j \in 1..(Len(list) - 1) |->
                              IF j < least THEN list[j] ELSE list[j + 1]])

\* The list a set of numbers is collected into; its order (HashSet iteration)
\* does not survive the sort that follows.
RECURSIVE Collect(_)
Collect(set) ==
    IF set = {} THEN << >>
    ELSE LET x == CHOOSE y \in set : TRUE IN << x >> \o Collect(set \ {x})

\* get_query_archetypes: the archetypes of the first id's bucket that hold
\* every required id.
QueryArchetypes(AS, components) ==
    IF components[1] \in DOMAIN AS.component_index
    THEN Collect({a \in AS.component_index[components[1]] :
                    IsSupersetOf(At(AS.archetypes, a),
                                 {components[k] : k \in 1..Len(components)})})
    ELSE << >>

\* The archetype ids get_query_archetypes returns: the list sorted.
QueryArchetypeIds(AS, components) == SortAscending(QueryArchetypes(AS, components))

\* Their tables, mapped in the same order and then sorted.
QueryTableIds(AS, components) ==
    SortAscending([k \in 1..Len(QueryArchetypes(AS, components)) |->
                      At(AS.archetypes, QueryArchetypes(AS, components)[k]).table])

-----------------------------------------------------------------------------
(* lib.rs: World *)

VARIABLES
    entities,         \* World.entities: Entities
    components,       \* World.components: Components
    tables,           \* World.tables: Tables
    archetypes,       \* World.archetypes: Archetypes
    overflow_checks,  \* the build: overflow checks and debug assertions compiled in
    status,           \* "running", "panicked" (a Rust panic) or "crashed"
    calls,            \* the number of spawn calls made in this behaviour
    spawned,          \* history: the handle, bundle shape and location of every
                      \* spawn that returned, in order
    dead,             \* history: the spawns (positions of spawned) despawned since
    last,             \* history: the last call, its handle and the location involved
    written,          \* history: the values written through get_mut, by (spawn, type)
    dropped,          \* history: the bag of cells handed to a destructor
    open,             \* the queries that are open: a bag of [shape, exclusive]
    registered,       \* the id each type got from its first registration
    column            \* a Column used on its own, as storage.rs's tests do; None in a World

vars == << entities, components, tables, archetypes, overflow_checks, status,
           calls, spawned, dead, last, written, dropped, open, registered, column >>

world == << entities, components, tables, archetypes >>

Call(op, entity, loc) == [op |-> op, entity |-> entity, loc |-> loc]

\* The history of registrations R after register_component::<T>() returned id.
Noted(R, T, id) ==
    IF T \in DOMAIN R THEN R
    ELSE [U \in DOMAIN R \cup {T} |-> IF U = T THEN id ELSE R[U]]

\* The history after Bundle::component_ids registered the types of a bundle.
RECURSIVE Registrations(_, _, _)
Registrations(R, C, shape) ==
    IF shape = << >> THEN R
    ELSE Registrations(Noted(R, Head(shape), RegisterReturn(C, Head(shape))),
                       RegisterComponent(C, Head(shape)), Tail(shape))

\* World::new
Init ==
    /\ entities = EntitiesNew
    /\ components = ComponentsNew
    /\ tables = TablesNew
    /\ archetypes = ArchetypesNew
    /\ overflow_checks \in BOOLEAN
    /\ status = "running"
    /\ calls = 0
    /\ spawned = << >>
    /\ dead = {}
    /\ last = Call("new", Entity(U32Zero, 0), None)
    /\ written = << >>
    /\ dropped = EmptyBag
    /\ open = EmptyBag
    /\ registered = << >>
    /\ column = None

\* The spawns that are alive, and the one behind a handle.
Live == (1..Len(spawned)) \ dead
LiveOf(entity) == {p \in Live : spawned[p].entity = entity}

\* What the history says of the bundle of spawn p.
HasType(p, T) == \E k \in 1..Len(spawned[p].shape) : spawned[p].shape[k] = T

TypesOf(p) == {spawned[p].shape[k] : k \in 1..Len(spawned[p].shape)}

\* The value spawn p gave its component of type T (the later one when the
\* bundle names T twice).
Expected(p, T) ==
    Value(p, CHOOSE k \in 1..Len(spawned[p].shape) :
                /\ spawned[p].shape[k] = T
                /\ \A j \in 1..Len(spawned[p].shape) : spawned[p].shape[j] = T => j <= k)

\* bundle.get: the columns written in bundle order, each at `row`;
\* landed[k] is what the slot of the k-th component holds afterwards.
RECURSIVE BundleGet(_, _, _, _, _, _)
BundleGet(table, C, shape, row, landed, k) ==
    IF k > Len(shape) THEN table
    ELSE BundleGet(
            [table EXCEPT !.columns[ComponentIdOf(C, shape[k])[1]] =
                InitializeUnchecked(@, row, landed[k])],
            C, shape, row, landed, k + 1)

\* The outcomes of the writes of a bundle of spawn number serial into `row`.
BundleOutcomes(table, C, shape, row, serial) ==
    {landed \in [1..Len(shape) -> {Value(serial, k) : k \in 1..Len(shape)} \cup {Garbage}] :
        \A k \in 1..Len(shape) :
            landed[k] \in InitializeOutcomes(table.columns[ComponentIdOf(C, shape[k])[1]],
                                             row, Value(serial, k))}

\* A write of the bundle leaves the allocation of its column.
BundleOutOfBounds(table, C, shape, row) ==
    \E k \in 1..Len(shape) :
        ~InAllocation(table.columns[ComponentIdOf(C, shape[k])[1]], row)

\* World::spawn(bundle)
Spawn(shape) ==
    LET entity == AllocEntity(entities)
        serial == Len(spawned) + 1
        C == BundleRegister(components, shape)
        component_ids == SortUnstable(BundleComponentIds(components, shape))
        table_id == TablesId(tables, component_ids)
        TS == TablesGetIdOrInsert(tables, component_ids, C)
        archetype_id == ArchetypesId(archetypes, component_ids)
        AS == ArchetypesGetIdOrInsert(archetypes, table_id, component_ids)
        table_row == TableLen(At(TS.tables, table_id))
        table == TableAllocate(At(TS.tables, table_id), entity)
        archetype == At(AS.archetypes, archetype_id)
        location == ArchetypeLocation(archetype, table_row)
    IN  /\ status = "running"
        /\ calls < MaxSpawns
        /\ calls' = calls + 1
        /\ \E landed \in BundleOutcomes(table, C, shape, table_row, serial) :
           \E crash \in IF BundleOutOfBounds(table, C, shape, table_row)
                        THEN BOOLEAN ELSE {FALSE} :
              IF AllocCorrupt(entities)
              THEN /\ status' = "panicked"
                   /\ UNCHANGED world
              ELSE IF crash
              THEN /\ status' = "crashed"
                   /\ UNCHANGED world
              ELSE IF ArchetypeAllocatePanics(archetype, table_row, overflow_checks)
              THEN /\ status' = "panicked"
                   /\ components' = C
                   /\ tables' = [TS EXCEPT !.tables[table_id + 1] =
                                    BundleGet(table, C, shape, table_row, landed, 1)]
                   /\ archetypes' = AS
                   /\ UNCHANGED entities
              ELSE /\ status' = "running"
                   /\ components' = C
                   /\ tables' = [TS EXCEPT !.tables[table_id + 1] =
                                    BundleGet(table, C, shape, table_row, landed, 1)]
                   /\ archetypes' = [AS EXCEPT !.archetypes[archetype_id + 1] =
                                        ArchetypeAllocate(archetype, entity, table_row)]
                   /\ entities' = AllocCommit(entities, Some(location))
        /\ spawned' = IF status' = "running"
                      THEN Append(spawned, [entity |-> entity, shape |-> shape,
                                            loc |-> location])
                      ELSE spawned
        /\ dead' = dead
        /\ last' = Call("spawn", entity, Some(location))
        /\ registered' = IF status' = "crashed" THEN registered
                         ELSE Registrations(registered, components, shape)
        /\ UNCHANGED << overflow_checks, written, dropped, open, column >>

\* The handles a caller may hold: every handle spawn returned, and handles it
\* never returned (an index past the slots, a generation not yet reached).
Handles ==
    {spawned[p].entity : p \in 1..Len(spawned)}
    \cup {Entity(U32Zero, Len(entities.entities))}
    \cup {Entity(U32WrappingInc(At(entities.entities, i).generation), i) :
            i \in 0..(Len(entities.entities) - 1)}

\* World::despawn(entity)
Despawn(entity) ==
    LET freed == FreeResult(entities, entity)
        location == freed[1]
        E1 == EntitiesFree(entities, entity)
        archetype == At(archetypes.archetypes, location.archetype_id)
        swapped == ArchetypeSwapped(archetype, location.table_row)
        AS == [archetypes EXCEPT !.archetypes[location.archetype_id + 1] =
                  ArchetypeSwapRemove(archetype, location.table_row)]
        swap_location == EntitiesGet(E1, swapped[1])
        E2 == IF swapped = None THEN E1
              ELSE EntitiesSet(E1, swapped[1],
                               [swap_location[1] EXCEPT !.table_row = location.table_row])
        table == At(tables.tables, location.table_id)
        \* despawn gets as far as Table::swap_remove, with a row of the table
        reaches_table ==
            /\ freed # None
            /\ ~FreePanics(entities, entity, overflow_checks)
            /\ ~ArchetypeSwapRemovePanics(archetype, location.table_row)
            /\ ~(swapped # None /\ swap_location = None)
            /\ location.table_row < TableLen(table)
    IN  /\ status = "running"
        /\ entity \in Handles
        /\ IF freed = None
           THEN UNCHANGED << world, status >>
           ELSE IF FreePanics(entities, entity, overflow_checks)
           THEN /\ status' = "panicked"
                /\ UNCHANGED world
           ELSE IF ArchetypeSwapRemovePanics(archetype, location.table_row)
           THEN /\ status' = "panicked"
                /\ entities' = E1
                /\ UNCHANGED << components, tables, archetypes >>
           ELSE IF swapped # None /\ swap_location = None
           THEN /\ status' = "panicked"
                /\ entities' = E1
                /\ archetypes' = AS
                /\ UNCHANGED << components, tables >>
           ELSE IF TableSwapRemovePanics(table, location.table_row, overflow_checks)
           THEN /\ status' = "panicked"
                /\ entities' = E2
                /\ archetypes' = AS
                /\ UNCHANGED << components, tables >>
           ELSE \E crash \in IF TableSwapRemoveOutOfBounds(table, location.table_row)
                             THEN BOOLEAN ELSE {FALSE} :
                    /\ status' = IF crash THEN "crashed" ELSE "running"
                    /\ entities' = E2
                    /\ archetypes' = AS
                    /\ tables' = IF crash THEN tables
                                 ELSE [tables EXCEPT !.tables[location.table_id + 1] =
                                          TableSwapRemove(table, location.table_row)]
                    /\ UNCHANGED components
        /\ \E drops \in IF reaches_table
                         THEN TableSwapRemoveDrops(table, location.table_row, overflow_checks)
                         ELSE {EmptyBag} :
              dropped' = dropped (+) drops
        /\ dead' = dead \cup LiveOf(entity)
        /\ last' = Call("despawn", entity, freed)
        /\ UNCHANGED << overflow_checks, calls, spawned, written, open, registered, column >>

\* World::get::<T>(entity)
WorldGet(T, entity) ==
    LET component_id == ComponentIdOf(components, T)
        location == EntitiesGet(entities, entity)
        table == TablesGet(tables, location[1].table_id)
    IN  IF component_id = None THEN None
        ELSE IF location = None THEN None
        ELSE IF table = None THEN None
        ELSE TableGetComponent(table[1], component_id[1], location[1].table_row)

\* World::get_mut::<T>(entity): where the reference it returns points (the
\* table, the column and the row), None when it returns None.
WorldGetMut(T, entity) ==
    LET component_id == ComponentIdOf(components, T)
        location == EntitiesGet(entities, entity)
        table == TablesGetMut(tables, location[1].table_id)
    IN  IF component_id = None THEN None
        ELSE IF location = None THEN None
        ELSE IF table = None THEN None
        ELSE IF TableGetComponentMut(table[1], component_id[1], location[1].table_row) = None
        THEN None
        ELSE Some([table_id |-> location[1].table_id,
                   component_id |-> component_id[1],
                   row |-> TableGetComponentMut(table[1], component_id[1],
                                                location[1].table_row)[1]])

\* The value a caller writes through get_mut into the component of type T of
\* spawn p: distinct from every spawned value and from every other cell's.
Rewritten(p, T) == Value(0 - p, Expected(p, T).pos)

\* The cells get_mut has written, with one more.
WrittenWith(p, T, value) ==
    [cell \in DOMAIN written \cup {<< p, T >>} |->
        IF cell = << p, T >> THEN value ELSE written[cell]]

\* World::get_mut::<T>(entity) followed by an assignment through the
\* reference it returned (as tests::world_get does).
GetMut(T, entity) ==
    LET target == WorldGetMut(T, entity)
        table == At(tables.tables, target[1].table_id)
        col == table.columns[target[1].component_id]
        p == CHOOSE q \in LiveOf(entity) : TRUE
        value == IF LiveOf(entity) # {} /\ HasType(p, T) THEN Rewritten(p, T) ELSE Value(0, 1)
    IN  /\ status = "running"
        /\ entity \in Handles
        /\ IF target = None
           THEN UNCHANGED << tables, status, written >>
           ELSE /\ Cardinality(DOMAIN written \cup {<< p, T >>}) <= MaxWrites
                /\ \E landed \in DerefMutOutcomes(col, target[1].row, value) :
                   \E crash \in IF InAllocation(col, target[1].row)
                                THEN {FALSE} ELSE BOOLEAN :
                      /\ status' = IF crash THEN "crashed" ELSE "running"
                      /\ tables' = IF crash THEN tables
                                   ELSE [tables EXCEPT
                                           !.tables[target[1].table_id + 1]
                                            .columns[target[1].component_id] =
                                               DerefMutWrite(col, target[1].row, landed)]
                /\ written' = IF LiveOf(entity) # {} /\ HasType(p, T)
                              THEN WrittenWith(p, T, value) ELSE written
        /\ last' = [op |-> "get_mut", entity |-> entity, loc |-> target, type |-> T]
        /\ UNCHANGED << entities, components, archetypes, overflow_checks, calls,
                        spawned, dead, dropped, open, registered, column >>

-----------------------------------------------------------------------------
(* query.rs *)

\* The shapes of a query: &T or (&T1, &T2).
QueryShapes == BundleShapes

\* Queryable::get_component_ids and init_state panic (expect) on a type
\* that is not registered.
QueryPanics(shape) == \E k \in 1..Len(shape) : ComponentIdOf(components, shape[k]) = None

QueryComponentIds(shape) ==
    [k \in 1..Len(shape) |-> ComponentIdOf(components, shape[k])[1]]

\* Query::new
QueryNew(shape) ==
    [matched_tables |-> QueryTableIds(archetypes, QueryComponentIds(shape)),
     current_table |-> 0,
     current_row |-> 0,
     state |-> QueryComponentIds(shape)]

\* Queryable::fetch: the cell of each required column at `row`.
Fetch(state, table, row) ==
    [k \in 1..Len(state) |-> TableGetComponent(table, state[k], row)[1]]

\* Query::next that ends the iteration at the first table it finds
\* exhausted instead of moving on to the next one.
QueryNextStopsAtEmpty(query) ==
    IF query.current_table >= Len(query.matched_tables)
    THEN [item |-> None, at |-> None, query |-> query]
    ELSE LET table_id == At(query.matched_tables, query.current_table)
             table == TablesGet(tables, table_id)
         IN  IF table = None \/ query.current_row >= TableLen(table[1])
             THEN [item |-> None, at |-> None, query |-> query]
             ELSE [item |-> Some(Fetch(query.state, table[1], query.current_row)),
                   at |-> Some(<< table_id, query.current_row >>),
                   query |-> [query EXCEPT !.current_row = @ + 1]]

\* Query::next: the item (None at the end), the (table id, row) it was
\* fetched from, and the query afterwards.
RECURSIVE QueryNext(_)
QueryNext(query) ==
    IF query.current_table >= Len(query.matched_tables)
    THEN [item |-> None, at |-> None, query |-> query]
    ELSE LET table_id == At(query.matched_tables, query.current_table)
             table == TablesGet(tables, table_id)
         IN  IF table = None
             THEN [item |-> None, at |-> None, query |-> query]
             ELSE IF query.current_row >= TableLen(table[1])
             THEN QueryNext([query EXCEPT !.current_table = @ + 1, !.current_row = 0])
             ELSE [item |-> Some(Fetch(query.state, table[1], query.current_row)),
                   at |-> Some(<< table_id, query.current_row >>),
                   query |-> [query EXCEPT !.current_row = @ + 1]]

\* The items a query yields up to its first None, and where each came from.
RECURSIVE Drain(_)
Drain(query) ==
    IF QueryNext(query).item = None THEN << >>
    ELSE << [item |-> QueryNext(query).item[1], at |-> QueryNext(query).at[1]] >>
         \o Drain(QueryNext(query).query)

QueryItems(shape) == [k \in 1..Len(Drain(QueryNew(shape))) |-> Drain(QueryNew(shape))[k].item]
QueryVisits(shape) == [k \in 1..Len(Drain(QueryNew(shape))) |-> Drain(QueryNew(shape))[k].at]

-----------------------------------------------------------------------------

Next ==
    \/ \E shape \in BundleShapes : Spawn(shape)
    \/ \E entity \in Handles : Despawn(entity)

Spec == Init /\ [][Next]_vars

\* The store with get_mut among its calls.
NextMut ==
    \/ \E shape \in BundleShapes : Spawn(shape)
    \/ \E entity \in Handles : Despawn(entity)
    \/ \E T \in Types : \E entity \in Handles : GetMut(T, entity)

SpecMut == Init /\ [][NextMut]_vars

-----------------------------------------------------------------------------
(* lib.rs: queries that stay open while other calls are made *)

ShapeTypes(shape) == {shape[k] : k \in 1..Len(shape)}

\* The query World::query::<shape>() returns: it borrows the World shared.
QueryOpened(shape) == [shape |-> shape, exclusive |-> FALSE]

\* The query World::query_mut::<shape>() returns: it borrows the World
\* exclusively and has exclusive access to the components of its shape.
MutQueryNew(shape) == [shape |-> shape, exclusive |-> TRUE]

\* The component types a query holds exclusively.
ExclusiveSet(q) == IF q.exclusive THEN ShapeTypes(q.shape) ELSE {}

\* query(&'w self): a shared borrow, which no live exclusive borrow allows.
QueryAdmitted == \A q \in BagToSet(open) : ~q.exclusive

\* query_mut with the receiver of query: admitted beside shared borrows.
QueryMutAdmittedShared == \A q \in BagToSet(open) : ~q.exclusive

\* query_mut(&'w mut self): an exclusive borrow, which no live borrow allows.
QueryMutAdmitted == open = EmptyBag

\* World::query::<shape>(), the Query kept
OpenQuery(shape) ==
    /\ status = "running"
    /\ QueryAdmitted
    /\ BagCardinality(open) < MaxOpen
    /\ IF QueryPanics(shape)
       THEN /\ status' = "panicked"
            /\ open' = open
       ELSE /\ status' = "running"
            /\ open' = open (+) SetToBag({QueryOpened(shape)})
    /\ last' = [op |-> "query", shape |-> shape]
    /\ UNCHANGED << world, overflow_checks, calls, spawned, dead, written, dropped,
                    registered, column >>

\* World::query_mut::<shape>(), the MutQuery kept
OpenQueryMut(shape) ==
    /\ status = "running"
    /\ QueryMutAdmitted
    /\ BagCardinality(open) < MaxOpen
    /\ open' = open (+) SetToBag({MutQueryNew(shape)})
    /\ last' = [op |-> "query_mut", shape |-> shape]
    /\ UNCHANGED << world, overflow_checks, status, calls, spawned, dead, written,
                    dropped, registered, column >>

\* An open query goes out of scope.
CloseQuery(q) ==
    /\ status = "running"
    /\ BagIn(q, open)
    /\ open' = open (-) SetToBag({q})
    /\ last' = [op |-> "close", shape |-> q.shape]
    /\ UNCHANGED << world, overflow_checks, status, calls, spawned, dead, written,
                    dropped, registered, column >>

\* spawn(&mut self) needs the World unborrowed.
NextQuery ==
    \/ \E T \in Types : open = EmptyBag /\ Spawn(<< T >>)
    \/ \E shape \in QueryShapes : OpenQuery(shape)
    \/ \E shape \in QueryShapes : OpenQueryMut(shape)
    \/ \E q \in BagToSet(open) : CloseQuery(q)

SpecQuery == Init /\ [][NextQuery]_vars

-----------------------------------------------------------------------------
(* A store of values with destructors, and its end *)

\* The World goes out of scope: its tables, and with them the columns, drop.
DropWorld ==
    /\ status = "running"
    /\ status' = "dropped"
    /\ dropped' = dropped (+) TablesDropDrops(tables, 0)
    /\ last' = [op |-> "drop"]
    /\ UNCHANGED << world, overflow_checks, calls, spawned, dead, written, open,
                    registered, column >>

NextDrop ==
    \/ \E shape \in DropShapes : Spawn(shape)
    \/ \E entity \in Handles : Despawn(entity)
    \/ DropWorld

SpecDrop == Init /\ [][NextDrop]_vars

-----------------------------------------------------------------------------
(* lib.rs: World::spawn in the two steps Entities::alloc takes *)

\* Entities::alloc up to the return of the closure f(entity): World::spawn's
\* closure registers the bundle, finds or makes table and archetype,
\* allocates the row, writes the bundle and allocates the archetype record.
SpawnClosure(shape) ==
    LET entity == AllocEntity(entities)
        serial == Len(spawned) + 1
        C == BundleRegister(components, shape)
        component_ids == SortUnstable(BundleComponentIds(components, shape))
        table_id == TablesId(tables, component_ids)
        TS == TablesGetIdOrInsert(tables, component_ids, C)
        archetype_id == ArchetypesId(archetypes, component_ids)
        AS == ArchetypesGetIdOrInsert(archetypes, table_id, component_ids)
        table_row == TableLen(At(TS.tables, table_id))
        table == TableAllocate(At(TS.tables, table_id), entity)
        archetype == At(AS.archetypes, archetype_id)
        location == ArchetypeLocation(archetype, table_row)
    IN  /\ status = "running"
        /\ last.op # "closure"
        /\ calls < MaxSpawns
        /\ calls' = calls + 1
        /\ \E landed \in BundleOutcomes(table, C, shape, table_row, serial) :
           \E crash \in IF BundleOutOfBounds(table, C, shape, table_row)
                        THEN BOOLEAN ELSE {FALSE} :
              /\ IF AllocCorrupt(entities)
                 THEN /\ status' = "panicked"
                      /\ UNCHANGED << components, tables, archetypes >>
                 ELSE IF crash
                 THEN /\ status' = "crashed"
                      /\ UNCHANGED << components, tables, archetypes >>
                 ELSE /\ status' = IF ArchetypeAllocatePanics(archetype, table_row,
                                                              overflow_checks)
                                   THEN "panicked" ELSE "running"
                      /\ components' = C
                      /\ tables' = [TS EXCEPT !.tables[table_id + 1] =
                                       BundleGet(table, C, shape, table_row, landed, 1)]
                      /\ archetypes' =
                            IF ArchetypeAllocatePanics(archetype, table_row, overflow_checks)
                            THEN AS
                            ELSE [AS EXCEPT !.archetypes[archetype_id + 1] =
                                     ArchetypeAllocate(archetype, entity, table_row)]
              /\ last' = [op |-> "closure", entity |-> entity, loc |-> Some(location),
                          shape |-> shape, landed |-> landed]
        /\ registered' = IF status' = "crashed" THEN registered
                         ELSE Registrations(registered, components, shape)
        /\ UNCHANGED << entities, overflow_checks, spawned, dead, written, dropped, open,
                        column >>

\* Entities::alloc after the closure returned Ok(loc): the slot is committed
\* and the entity returned.
SpawnCommit ==
    /\ status = "running"
    /\ last.op = "closure"
    /\ entities' = AllocCommit(entities, last.loc)
    /\ spawned' = Append(spawned, [entity |-> last.entity, shape |-> last.shape,
                                   loc |-> last.loc[1]])
    /\ last' = Call("spawn", last.entity, last.loc)
    /\ UNCHANGED << components, tables, archetypes, overflow_checks, status, calls, dead,
                    written, dropped, open, registered, column >>

\* World::despawn, called when no spawn is under way.
DespawnCall(entity) == last.op # "closure" /\ Despawn(entity)

NextSpawn ==
    \/ \E shape \in BundleShapes : SpawnClosure(shape)
    \/ SpawnCommit
    \/ \E entity \in Handles : DespawnCall(entity)

SpecSpawn == Init /\ [][NextSpawn]_vars

-----------------------------------------------------------------------------
(* storage.rs: a Column called directly, as its tests do *)

\* The item types of the columns: u32 and a 12-byte struct as in the tests,
\* and a type with a destructor.
ColumnTypes == {"u32", "Position", "Guard"}

\* The value initialize_unchecked is given for row `index`.
ItemOf(index) == Value(index + 1, 1)

\* Column::with_capacity(info, capacity) for a type and a capacity
InitColumn ==
    /\ entities = EntitiesNew
    /\ components = ComponentsNew
    /\ tables = TablesNew
    /\ archetypes = ArchetypesNew
    /\ overflow_checks \in BOOLEAN
    /\ status = "running"
    /\ calls = 0
    /\ spawned = << >>
    /\ dead = {}
    /\ last = [op |-> "with_capacity", removed |-> 0]
    /\ written = << >>
    /\ dropped = EmptyBag
    /\ open = EmptyBag
    /\ registered = << >>
    /\ column \in {ColumnWithCapacity(ComponentInfo(0, T), capacity) :
                        T \in ColumnTypes, capacity \in 0..MaxCapacity}

\* Column::initialize_unchecked(index, value) on the next row, which the
\* caller keeps below the capacity; `calls` counts the rows initialized and
\* last.removed the rows the caller has removed since.
InitializeCall ==
    /\ status = "running"
    /\ calls < MaxCapacity
    /\ calls < ColumnCapacity(column)
    /\ column' = InitializeUnchecked(column, calls, ItemOf(calls))
    /\ calls' = calls + 1
    /\ last' = [op |-> "initialize_unchecked", index |-> calls, removed |-> last.removed]
    /\ UNCHANGED << world, overflow_checks, status, spawned, dead, written, dropped,
                    open, registered >>

\* Column::reserve(additional)
ReserveCall(additional) ==
    /\ status = "running"
    /\ column' = ColumnReserve(column, additional)
    /\ last' = [op |-> "reserve", index |-> additional, removed |-> last.removed,
                from |-> ColumnCapacity(column)]
    /\ UNCHANGED << world, overflow_checks, status, calls, spawned, dead, written,
                    dropped, open, registered >>

\* Column::swap_remove(index) on a row that was initialized
SwapRemoveCall(index) ==
    LET partner == SwapRemovePartner(column)
        incoming == IF InAllocation(column, partner) THEN GetUnchecked(column, partner)
                    ELSE Garbage
    IN  /\ status = "running"
        /\ index < calls - last.removed
        /\ \E crash \in IF InAllocation(column, partner) THEN {FALSE} ELSE BOOLEAN :
              IF overflow_checks /\ SwapRemoveUnderflows(column)
              THEN /\ status' = "panicked"
                   /\ column' = column
              ELSE IF overflow_checks /\ index = partner
              THEN /\ status' = "panicked"
                   /\ column' = column
              ELSE IF crash
              THEN /\ status' = "crashed"
                   /\ column' = column
              ELSE /\ status' = "running"
                   /\ column' = ColumnSwapRemove(column, index, incoming)
        /\ last' = [op |-> "swap_remove", index |-> index, removed |-> last.removed + 1]
        /\ UNCHANGED << world, overflow_checks, calls, spawned, dead, written, dropped,
                        open, registered >>

\* Column::drop_last() on a column with an initialized row
DropLastCall ==
    /\ status = "running"
    /\ calls - last.removed > 0
    /\ dropped' = dropped (+) ColumnDropLastDrops(column)
    /\ IF overflow_checks /\ DropLastUnderflows(column)
       THEN /\ status' = "panicked"
            /\ column' = column
       ELSE /\ status' = "running"
            /\ column' = ColumnDropLast(column)
    /\ last' = [op |-> "drop_last", index |-> DropLastTarget(column),
                removed |-> last.removed + 1]
    /\ UNCHANGED << world, overflow_checks, calls, spawned, dead, written, open,
                    registered >>

NextColumn ==
    \/ InitializeCall
    \/ \E additional \in 1..MaxCapacity : ReserveCall(additional)
    \/ \E index \in 0..(MaxCapacity - 1) : SwapRemoveCall(index)
    \/ DropLastCall

SpecColumn == InitColumn /\ [][NextColumn]_vars

-----------------------------------------------------------------------------
(* entity.rs: the allocator called directly, as its tests do *)

\* The locations a closure hands back, and its results: Ok(loc) or Err(()).
AllocLocations == {EntityLocation(0, 0, row) : row \in {0, 1}}
AllocResults == {None} \cup {Some(loc) : loc \in AllocLocations}

\* Entities::alloc(f), where f returns `result`
Alloc(result) ==
    /\ status = "running"
    /\ calls < MaxSpawns
    /\ calls' = calls + 1
    /\ IF AllocCorrupt(entities)
       THEN /\ status' = "panicked"
            /\ UNCHANGED << entities, spawned >>
       ELSE /\ status' = "running"
            /\ entities' = AllocCommit(entities, result)
            /\ spawned' = IF result = None THEN spawned
                          ELSE Append(spawned, [entity |-> AllocEntity(entities),
                                                shape |-> << >>, loc |-> result[1]])
    /\ last' = [op |-> "alloc", entity |-> AllocEntity(entities), loc |-> result,
                ret |-> AllocReturn(entities, result)]
    /\ UNCHANGED << components, tables, archetypes, overflow_checks, dead, written,
                    dropped, open, registered, column >>

\* Entities::free(entity)
FreeCall(entity) ==
    /\ status = "running"
    /\ entity \in Handles
    /\ IF FreePanics(entities, entity, overflow_checks)
       THEN /\ status' = "panicked"
            /\ UNCHANGED << entities, dead >>
       ELSE /\ status' = "running"
            /\ entities' = EntitiesFree(entities, entity)
            /\ dead' = dead \cup LiveOf(entity)
    /\ last' = Call("free", entity, FreeResult(entities, entity))
    /\ UNCHANGED << components, tables, archetypes, overflow_checks, calls, spawned,
                    written, dropped, open, registered, column >>

\* Entities::set(entity, location)
SetCall(entity, location) ==
    /\ status = "running"
    /\ entity \in Handles
    /\ entities' = EntitiesSet(entities, entity, location)
    /\ last' = Call("set", entity, Some(location))
    /\ UNCHANGED << components, tables, archetypes, overflow_checks, status, calls,
                    spawned, dead, written, dropped, open, registered, column >>

NextAlloc ==
    \/ \E result \in AllocResults : Alloc(result)
    \/ \E entity \in Handles : FreeCall(entity)
    \/ \E entity \in Handles : \E location \in AllocLocations : SetCall(entity, location)

SpecAlloc == Init /\ [][NextAlloc]_vars

-----------------------------------------------------------------------------
(* component.rs: the registry called directly, as its test does *)

\* Components::register_component::<T>()
RegisterCall(T) ==
    /\ status = "running"
    /\ components' = RegisterComponent(components, T)
    /\ registered' = Noted(registered, T, RegisterReturn(components, T))
    /\ last' = [op |-> "register_component", type |-> T,
                ret |-> RegisterReturn(components, T)]
    /\ UNCHANGED << entities, tables, archetypes, overflow_checks, status, calls,
                    spawned, dead, written, dropped, open, column >>

\* Components::component_id::<T>()
ComponentIdCall(T) ==
    /\ status = "running"
    /\ last' = [op |-> "component_id", type |-> T, ret |-> ComponentIdOf(components, T)]
    /\ UNCHANGED << world, overflow_checks, status, calls, spawned, dead, written,
                    dropped, open, registered, column >>

NextRegistry ==
    \/ \E T \in RegistryTypes : RegisterCall(T)
    \/ \E T \in RegistryTypes : ComponentIdCall(T)

SpecRegistry == Init /\ [][NextRegistry]_vars

-----------------------------------------------------------------------------
(* A store that has lived long.  Without overflow checks, spawning one      *)
(* MyComponent and despawning it leaves the store as it was but for the     *)
(* generation of slot 0, which is one higher (CycleOnce below is that state *)
(* after the first cycle, reached under Spec).  InitAged is the store after *)
(* 2^32 - 1 such cycles, too many to enumerate: the generation of slot 0 is *)
(* the largest u32.  The history keeps the first of these spawns.           *)

FirstEntity == Entity(U32Zero, 0)
LastAgedEntity == Entity(<< Limb - 1, Limb - 2 >>, 0)
FirstLocation == EntityLocation(0, 0, 0)

CycledComponents == RegisterComponent(ComponentsNew, "MyComponent")

\* The table of << MyComponent >> after a row was allocated, written and
\* removed; stale holds what the bytes of row 0 were last written with.
CycledTables(entity, stale) ==
    LET TS == TablesGetIdOrInsert(TablesNew, << 0 >>, CycledComponents)
        table == BundleGet(TableAllocate(At(TS.tables, 0), entity), CycledComponents,
                           << "MyComponent" >>, 0, << stale >>, 1)
    IN  [TS EXCEPT !.tables[1] = TableSwapRemove(table, 0)]

CycledArchetypes == ArchetypesGetIdOrInsert(ArchetypesNew, 0, << 0 >>)

CycledEntities(generation) ==
    [entities |-> << Free(1, generation) >>, free_head |-> 0, len |-> 0]

InitAged ==
    /\ entities = CycledEntities(U32Max)
    /\ components = CycledComponents
    /\ tables = CycledTables(LastAgedEntity, Garbage)
    /\ archetypes = CycledArchetypes
    /\ overflow_checks = FALSE
    /\ status = "running"
    /\ calls = 0
    /\ spawned = << [entity |-> FirstEntity, shape |-> << "MyComponent" >>,
                     loc |-> FirstLocation] >>
    /\ dead = {1}
    /\ last = Call("despawn", LastAgedEntity, Some(FirstLocation))
    /\ written = << >>
    /\ dropped = EmptyBag
    /\ open = EmptyBag
    /\ registered = [T \in {"MyComponent"} |-> 0]
    /\ column = None

SpecAged == InitAged /\ [][Next]_vars

\* The allocator after 2^32 - 1 alloc/free cycles of slot 0, in either build:
\* the increments up to the largest u32 do not overflow.
InitAllocAged ==
    /\ entities = CycledEntities(U32Max)
    /\ components = ComponentsNew
    /\ tables = TablesNew
    /\ archetypes = ArchetypesNew
    /\ overflow_checks \in BOOLEAN
    /\ status = "running"
    /\ calls = 0
    /\ spawned = << [entity |-> FirstEntity, shape |-> << >>, loc |-> FirstLocation] >>
    /\ dead = {1}
    /\ last = Call("free", LastAgedEntity, Some(FirstLocation))
    /\ written = << >>
    /\ dropped = EmptyBag
    /\ open = EmptyBag
    /\ registered = << >>
    /\ column = None

SpecAllocAged == InitAllocAged /\ [][NextAlloc]_vars

\* The store after one cycle from World::new, as the operators above build it.
CycleOnce ==
    /\ entities = CycledEntities(U32WrappingInc(U32Zero))
    /\ components = CycledComponents
    /\ tables = CycledTables(FirstEntity, Value(1, 1))
    /\ archetypes = CycledArchetypes
    /\ ~overflow_checks
    /\ status = "running"

-----------------------------------------------------------------------------
(* What the history says a live entity holds *)

\* Every live entity reads back, for each of its types, the value it was
\* spawned with.
Intact ==
    \A p \in Live : \A T \in TypesOf(p) :
        WorldGet(T, spawned[p].entity) = Some(Expected(p, T))

-----------------------------------------------------------------------------
(* Claims *)

\* C1: once despawn(e) was applied to a live handle e, World::get(e) and
\* Entities::get(e) are absent in every later state, also after spawns that
\* reuse e's slot index.
C1_GenerationalSafety ==
    status = "running" =>
        \A p \in dead :
            /\ EntitiesGet(entities, spawned[p].entity) = None
            /\ \A T \in Types : WorldGet(T, spawned[p].entity) = None

\* C2: of two handles alloc returned for the same index, the later one has
\* the strictly greater generation, so no two are equal.
C2_ReuseRaisesGeneration ==
    \A p, q \in 1..Len(spawned) :
        (p < q /\ spawned[p].entity.index = spawned[q].entity.index)
            => U32Lt(spawned[p].entity.generation, spawned[q].entity.generation)

\* C3: right after spawn returned a handle, get::<T> on it returns, for every
\* type T of the bundle, the value that was spawned.
C3_RoundTrip ==
    (status = "running" /\ last.op = "spawn") =>
        \A T \in TypesOf(Len(spawned)) :
            WorldGet(T, last.entity) = Some(Expected(Len(spawned), T))

\* C4: a despawn that returns leaves every still-live entity reading back the
\* values it was spawned with, whichever row the despawned entity had.
C4_SurvivorsKeepValues ==
    [][(last'.op = "despawn" /\ Intact /\ status' = "running") => Intact']_vars

\* C5: when despawn(e) removes row r of a table and r is not its last row, the
\* entity of the last row has afterwards the location it had with table_row =
\* r; when r is the last row, the location of every other live entity is as
\* before.
C5_LocationRepair ==
    [][(last'.op = "despawn" /\ last'.loc # None) =>
        LET r == last'.loc[1].table_row
            rows == At(tables.tables, last'.loc[1].table_id).entities
            moved == At(rows, Len(rows) - 1)
        IN  IF r # Len(rows) - 1
            THEN EntitiesGet(entities', moved) =
                    Some([EntitiesGet(entities, moved)[1] EXCEPT !.table_row = r])
            ELSE \A p \in Live :
                    spawned[p].entity # last'.entity =>
                        EntitiesGet(entities', spawned[p].entity) =
                            EntitiesGet(entities, spawned[p].entity)]_vars

\* C5 witness: a despawn returned after removing a row that was not the last:
\* a live entity of that table now has the removed row, not the row it was
\* spawned into.
C5_Witness ==
    /\ status = "running"
    /\ last.op = "despawn"
    /\ last.loc # None
    /\ \E p \in Live :
          /\ spawned[p].loc.table_id = last.loc[1].table_id
          /\ spawned[p].loc.table_row # last.loc[1].table_row
          /\ EntitiesGet(entities, spawned[p].entity) = Some(last.loc[1])

\* The items a query of `shape` is to yield: one per live entity that has
\* every type of the shape, with that entity's values.
ExpectedItems(shape) ==
    {[k \in 1..Len(shape) |-> Expected(p, shape[k])] :
        p \in {q \in Live : \A k \in 1..Len(shape) : HasType(q, shape[k])}}

\* C6: a query for a shape of registered types yields exactly one item per
\* live entity whose component set includes the shape, with that entity's
\* current values, and nothing else.
C6_QueryExact ==
    status = "running" =>
        \A shape \in QueryShapes :
            ~QueryPanics(shape) =>
                /\ Len(QueryItems(shape)) = Cardinality(ExpectedItems(shape))
                /\ {QueryItems(shape)[k] : k \in 1..Len(QueryItems(shape))}
                      = ExpectedItems(shape)

\* (table id, row) pairs in strictly ascending order, table first.
Ascending(visits) ==
    \A k \in 1..(Len(visits) - 1) :
        \/ visits[k][1] < visits[k + 1][1]
        \/ visits[k][1] = visits[k + 1][1] /\ visits[k][2] < visits[k + 1][2]

\* Only single values of type T were spawned and none was despawned.
OnlyOf(T) == dead = {} /\ \A p \in 1..Len(spawned) : spawned[p].shape = << T >>

\* C7: a query visits its tables in ascending id order and the rows of each
\* in ascending order; n spawns of one component type into a fresh world are
\* yielded as the n values in spawn order.
C7_QueryOrder ==
    status = "running" =>
        /\ \A shape \in QueryShapes : ~QueryPanics(shape) => Ascending(QueryVisits(shape))
        /\ \A T \in Types :
              (OnlyOf(T) /\ spawned # << >>) =>
                  QueryItems(<< T >>) = [p \in 1..Len(spawned) |-> << Value(p, 1) >>]

\* C8: two spawns with the same set of component types get the same table id
\* and the same archetype id; two spawns with different sets get different
\* table ids and different archetype ids.
C8_StructuralDedup ==
    \A p, q \in 1..Len(spawned) :
        /\ TypesOf(p) = TypesOf(q) <=> spawned[p].loc.table_id = spawned[q].loc.table_id
        /\ TypesOf(p) = TypesOf(q) <=> spawned[p].loc.archetype_id = spawned[q].loc.archetype_id

\* C9: despawn on a handle that no live entity has (stale or never returned)
\* does not fail and changes no part of the store: allocator, archetypes,
\* tables, columns and registry are as before.
C9_StaleDespawnNoop ==
    [][(last'.op = "despawn" /\ LiveOf(last'.entity) = {}) =>
            (status' = status /\ UNCHANGED world)]_vars

\* C9 witness: the last call despawned a handle that had been despawned
\* before, while a live entity has the same slot index.
C9_Witness ==
    /\ status = "running"
    /\ last.op = "despawn"
    /\ \E p \in dead : spawned[p].entity = last.entity
    /\ LiveOf(last.entity) = {}
    /\ \E p \in Live : spawned[p].entity.index = last.entity.index

\* C10: get::<T>(entity) is absent when no live entity has the handle, when T
\* is not among the entity's types, and when T is not registered; otherwise
\* it is the entity's value of type T.
C10_GetContract ==
    status = "running" =>
        \A entity \in Handles : \A T \in Types :
            WorldGet(T, entity) =
                IF \E p \in LiveOf(entity) : HasType(p, T)
                THEN Some(Expected(CHOOSE p \in LiveOf(entity) : TRUE, T))
                ELSE None

\* The absent cases of C10 alone.
C10_AbsentCases ==
    status = "running" =>
        \A entity \in Handles : \A T \in Types :
            (~\E p \in LiveOf(entity) : HasType(p, T)) => WorldGet(T, entity) = None

\* The value get reads back at the component of type T of spawn p: the one
\* last written through get_mut, else the one spawned.
Current(p, T) ==
    IF << p, T >> \in DOMAIN written THEN written[<< p, T >>] ELSE Expected(p, T)

\* C11: get_mut::<T>(e) is absent exactly when get::<T>(e) is, and then
\* changes nothing; a write through the reference it returns (the call
\* having returned) is what
\* get::<T>(e) returns afterwards, also after later calls on other entities,
\* and every other component of every live entity reads as before.
C11_GetMutContract ==
    [][/\ \A T \in Types : \A e \in Handles :
            (last'.op = "get_mut" /\ last'.type = T /\ last'.entity = e) =>
                /\ (last'.loc = None) <=> (WorldGet(T, e) = None)
                /\ last'.loc = None => (status' = status /\ UNCHANGED world)
                /\ (last'.loc # None /\ status' = "running") =>
                      /\ \A p \in LiveOf(e) :
                            /\ << p, T >> \in DOMAIN written'
                            /\ WorldGet(T, e)' = Some(written'[<< p, T >>])
                      /\ \A q \in Live : \A U \in TypesOf(q) :
                            (spawned[q].entity # e \/ U # T) =>
                                WorldGet(U, spawned[q].entity)' = WorldGet(U, spawned[q].entity)
       /\ (last'.op # "get_mut" /\ status' = "running") =>
            \A cell \in DOMAIN written :
                (cell[1] \in Live' /\ WorldGet(cell[2], spawned[cell[1]].entity)
                                        = Some(written[cell])) =>
                    WorldGet(cell[2], spawned[cell[1]].entity)' = Some(written[cell])]_vars

\* C12: a query whose shape names a type that was never registered does
\* not fail, and its first next() is absent.
C12_UnregisteredQueryEmpty ==
    status = "running" =>
        \A shape \in QueryShapes :
            (\E k \in 1..Len(shape) : ComponentIdOf(components, shape[k]) = None) =>
                /\ ~QueryPanics(shape)
                /\ QueryNext(QueryNew(shape)).item = None

\* C13: alloc is all-or-nothing.  When the closure fails, alloc returns the
\* failure and the allocator is unchanged: a free slot stays free with its
\* generation and its place at the head of the free list, and when there was
\* no free slot the slot list does not grow and the count does not change.
C13_AllocAllOrNothing ==
    [][(last'.op = "alloc" /\ last'.loc = None) =>
          /\ last'.ret = None
          /\ entities' = entities
          /\ status' = status]_vars

\* A failed alloc happened while a free slot headed the free list, after an
\* earlier failed or successful alloc had to grow the list.
C13_Witness ==
    /\ last.op = "alloc"
    /\ last.loc = None
    /\ AllocSlot(entities) # None
    /\ dead # {}

\* C14: free on a live handle returns the location stored for it, raises the
\* generation of its slot by exactly one, leaves the slot Free and makes it
\* the head of the free list, so that the next alloc reuses that index.
C14_FreeLive ==
    [][(last'.op = "free" /\ LiveOf(last'.entity) # {}) =>
          LET index == last'.entity.index
              before == At(entities.entities, index)
              after == At(entities'.entities, index)
          IN  /\ status' = "running"
              /\ last'.loc = Some(before.loc)
              /\ after.tag = "Free"
              /\ after.generation = U32WrappingInc(before.generation)
              /\ U32Lt(before.generation, after.generation)
              /\ after.next_free = entities.free_head
              /\ entities'.free_head = index
              /\ AllocEntity(entities') = Entity(after.generation, index)]_vars

\* C15: free and set on a handle that names no live entity change nothing, and
\* free returns none; a second free of a freed handle leaves the newer entity
\* at the same index as it was.
C15_StaleFreeSetNoop ==
    [][((last'.op = "free" \/ last'.op = "set") /\ LiveOf(last'.entity) = {}) =>
          /\ entities' = entities
          /\ status' = status
          /\ last'.op = "free" => last'.loc = None]_vars

\* A freed handle was freed again while a newer entity lived at its index.
C15_Witness ==
    /\ last.op = "free"
    /\ last.loc = None
    /\ \E p \in dead : spawned[p].entity = last.entity
    /\ \E q \in Live : /\ spawned[q].entity.index = last.entity.index
                       /\ EntitiesGet(entities, spawned[q].entity) # None

\* No slot of the allocator is Free.
NoFreeSlot == \A i \in 1..Len(entities.entities) : entities.entities[i].tag = "Occupied"

\* C16: when no slot is free, an alloc that returns a handle appends a slot and
\* the handle has generation 0 and the previous number of slots as its index;
\* while nothing was despawned, the i-th spawn (from 0) returns {0, i}.
C16_FreshHandles ==
    [][(last'.op \in {"spawn", "alloc"} /\ Len(spawned') = Len(spawned) + 1) =>
          LET handle == spawned'[Len(spawned')].entity
              slots == Len(entities.entities)
          IN  /\ NoFreeSlot =>
                    /\ handle = Entity(U32Zero, slots)
                    /\ Len(entities'.entities) = slots + 1
                    /\ At(entities'.entities, slots).tag = "Occupied"
                    /\ \A i \in 1..slots : entities'.entities[i] = entities.entities[i]
              /\ dead = {} => handle = Entity(U32Zero, Len(spawned))]_vars

\* The second of two spawns returned, nothing was despawned, and the allocator
\* grew to two slots.
C16_Witness ==
    /\ last.op = "spawn"
    /\ status = "running"
    /\ dead = {}
    /\ Len(spawned) = 2
    /\ Len(entities.entities) = 2

\* C17: the first registration of a type returns the number of types
\* registered before it and adds one entry; every later registration of the
\* type returns that id and adds none; component_id is absent exactly for
\* the types never registered, and is the id of the first registration else.
C17_RegistrationDense ==
    [][/\ \A T \in RegistryTypes :
            (last'.op = "register_component" /\ last'.type = T) =>
                IF T \notin DOMAIN registered
                THEN /\ last'.ret = Cardinality(DOMAIN registered)
                     /\ Len(components'.components) = Len(components.components) + 1
                ELSE /\ last'.ret = registered[T]
                     /\ components' = components
       /\ \A T \in RegistryTypes :
            (last'.op = "component_id" /\ last'.type = T) =>
                last'.ret = IF T \in DOMAIN registered THEN Some(registered[T]) ELSE None
       /\ \A T \in RegistryTypes :
            ComponentIdOf(components, T)' =
                IF T \in DOMAIN registered' THEN Some(registered'[T]) ELSE None
       /\ Len(components'.components) = Cardinality(DOMAIN registered')]_vars

\* A type was registered a second time after another type was registered,
\* while a third was never registered.
C17_Witness ==
    /\ last.op = "register_component"
    /\ last.ret = 0
    /\ Len(components.components) = 2
    /\ ComponentIdOf(components, "u8") = None

\* The component sets of the spawns that returned.
SetsSpawned == {TypesOf(p) : p \in 1..Len(spawned)}

\* C18: after any spawns and despawns there are as many tables as archetypes
\* as distinct component sets ever spawned; the counts never decrease, and
\* the table id and the archetype id of a key never change.
C18_OncePerSet ==
    [][status' = "running" =>
          /\ Len(tables'.tables) = Cardinality(SetsSpawned')
          /\ Len(archetypes'.archetypes) = Cardinality(SetsSpawned')
          /\ Len(tables'.tables) >= Len(tables.tables)
          /\ Len(archetypes'.archetypes) >= Len(archetypes.archetypes)
          /\ \A ids \in DOMAIN tables.table_index :
                /\ ids \in DOMAIN tables'.table_index
                /\ tables'.table_index[ids] = tables.table_index[ids]
          /\ \A ids \in DOMAIN archetypes.archetype_index :
                /\ ids \in DOMAIN archetypes'.archetype_index
                /\ archetypes'.archetype_index[ids] = archetypes.archetype_index[ids]]_vars

\* The values of spawn p that have a destructor, as a bag.
RECURSIVE Destructibles(_, _)
Destructibles(p, k) ==
    IF k > Len(spawned[p].shape) THEN EmptyBag
    ELSE (IF NeedsDrop(spawned[p].shape[k]) THEN SetToBag({Value(p, k)}) ELSE EmptyBag)
            (+) Destructibles(p, k + 1)

\* C19: a despawn that returns hands to destructors exactly the values of the
\* despawned entity that have one, each once, and no value of a survivor;
\* once the store is dropped, every value with a destructor that a spawn
\* moved in has been handed to its destructor exactly once.
C19_ExactlyOnce ==
    [][/\ (last'.op = "despawn" /\ status' = "running") =>
            \A p \in 1..Len(spawned) :
                IF p \in LiveOf(last'.entity)
                THEN dropped' = dropped (+) Destructibles(p, 1)
                ELSE LiveOf(last'.entity) = {} => dropped' = dropped
       /\ status' = "dropped" =>
            \A p \in 1..Len(spawned) : \A k \in 1..Len(spawned[p].shape) :
                NeedsDrop(spawned[p].shape[k]) => CopiesIn(Value(p, k), dropped') = 1]_vars

C21_LocationConsistency ==
    status = "running" =>
        /\ \A p \in Live :
              LET e == spawned[p].entity
                  location == EntitiesGet(entities, e)
              IN  /\ location # None
                  /\ location[1].table_id < Len(tables.tables)
                  /\ location[1].archetype_id < Len(archetypes.archetypes)
                  /\ location[1].table_row < TableLen(At(tables.tables, location[1].table_id))
                  /\ At(At(tables.tables, location[1].table_id).entities,
                        location[1].table_row) = e
                  /\ location[1].table_row <
                        Len(At(archetypes.archetypes, location[1].archetype_id).entities)
                  /\ At(At(archetypes.archetypes, location[1].archetype_id).entities,
                        location[1].table_row).entity = e
        /\ \A p, q \in Live :
              LET lp == EntitiesGet(entities, spawned[p].entity)[1]
                  lq == EntitiesGet(entities, spawned[q].entity)[1]
              IN  (lp.table_id = lq.table_id /\ lp.table_row = lq.table_row) => p = q

\* A despawn returned after it moved a live entity of the same table into the
\* row it removed.
C21_Witness ==
    /\ status = "running"
    /\ last.op = "despawn"
    /\ last.loc # None
    /\ \E p \in Live :
          /\ spawned[p].loc.table_row # last.loc[1].table_row
          /\ EntitiesGet(entities, spawned[p].entity) = Some(last.loc[1])

\* C22: after every spawn and every despawn, every column of every table has
\* the logical length of the table's row-to-entity list.
C22_RowAlignment ==
    status = "running" =>
        \A t \in 1..Len(tables.tables) :
            \A id \in DOMAIN tables.tables[t].columns :
                ColumnLen(tables.tables[t].columns[id]) = TableLen(tables.tables[t])

\* C23: whenever a spawn has written its bundle into row r of the columns of
\* its table, r is below the capacity of each of those columns, since
\* Table::allocate reserved beforehand.
C23_RowBelowCapacity ==
    [][(last'.op = "spawn" /\ status' = "running") =>
          LET location == last'.loc[1]
              table == At(tables'.tables, location.table_id)
          IN  \A id \in DOMAIN table.columns :
                  location.table_row < ColumnCapacity(table.columns[id])]_vars

\* C24: initialize_unchecked(row, value) leaves value in the slot of row and
\* raises the logical length by one; after rows 0..n-1 of a new column were
\* initialized the length is n and row i reads back the i-th value.
C24_InitializeGrows ==
    [][last'.op = "initialize_unchecked" =>
          /\ GetUnchecked(column', last'.index) = ItemOf(last'.index)
          /\ ColumnLen(column') = ColumnLen(column) + 1
          /\ last'.removed = 0 =>
                /\ ColumnLen(column') = calls'
                /\ \A i \in 0..(calls' - 1) : GetUnchecked(column', i) = ItemOf(i)]_vars

\* C25: swap_remove(row) for a row that is not the last of the rows in use
\* returns, leaves in row what the last row held, lowers the logical length
\* by exactly one and leaves every other row below the new length as it was.
C25_SwapRemoveMovesLast ==
    [][(last'.op = "swap_remove" /\ last'.index # calls - last.removed - 1) =>
          LET rows == calls - last.removed
          IN  /\ status' # "panicked"
              /\ status' = "running" =>
                    /\ GetUnchecked(column', last'.index) = GetUnchecked(column, rows - 1)
                    /\ ColumnLen(column') = ColumnLen(column) - 1
                    /\ \A i \in 0..(rows - 2) :
                          i # last'.index =>
                              GetUnchecked(column', i) = GetUnchecked(column, i)]_vars

\* C26: drop_last returns, hands to the destructor the value of the last row
\* in use and no other, lowers the logical length by exactly one whatever
\* the item size, and leaves the remaining rows as they were.
C26_DropLastRemovesLast ==
    [][last'.op = "drop_last" =>
          LET rows == calls - last.removed
          IN  /\ status' # "panicked"
              /\ column.drop =>
                    dropped' = dropped (+) SetToBag({GetUnchecked(column, rows - 1)})
              /\ status' = "running" =>
                    /\ ColumnLen(column') = ColumnLen(column) - 1
                    /\ \A i \in 0..(rows - 2) :
                          GetUnchecked(column', i) = GetUnchecked(column, i)]_vars

RequiredIds ==
    {<< c >> : c \in 0..(Cardinality(Types) - 1)}
        \cup {<< c, d >> : c \in 0..(Cardinality(Types) - 1), d \in 0..(Cardinality(Types) - 1)}

StrictlyAscending(list) == \A j, k \in 1..Len(list) : j < k => list[j] < list[k]

\* C28: get_query_archetypes(required) returns exactly the archetypes whose
\* component set holds every required id, the archetype ids ascending and
\* the ids of their tables ascending, and two empty lists when the first
\* required id has no bucket in the reverse index.
C28_QueryArchetypesExact ==
    \A required \in RequiredIds :
        LET ids == QueryArchetypeIds(archetypes, required)
            table_ids == QueryTableIds(archetypes, required)
            wanted == {a \in 0..(Len(archetypes.archetypes) - 1) :
                         \A k \in 1..Len(required) :
                             required[k] \in At(archetypes.archetypes, a).components}
        IN  /\ {ids[k] : k \in 1..Len(ids)} = wanted
            /\ StrictlyAscending(ids)
            /\ {table_ids[k] : k \in 1..Len(table_ids)} =
                  {At(archetypes.archetypes, a).table : a \in wanted}
            /\ Len(table_ids) = Len(ids)
            /\ StrictlyAscending(table_ids)
            /\ required[1] \notin DOMAIN archetypes.component_index =>
                  (ids = << >> /\ table_ids = << >>)

\* Two required ids match one archetype while the bucket of the first id
\* holds another archetype as well.
C28_Witness ==
    \E required \in RequiredIds :
        /\ Len(required) = 2
        /\ required[1] # required[2]
        /\ Len(QueryArchetypeIds(archetypes, required)) = 1
        /\ Cardinality(archetypes.component_index[required[1]]) = 2

\* The bucket the reverse index keeps for a component id, empty when it
\* keeps none.
BucketOf(AS, c) == IF c \in DOMAIN AS.component_index THEN AS.component_index[c] ELSE {}

\* C29: archetype a is in the reverse-index bucket of component id c exactly
\* when c belongs to a's component set, in every state, and no step takes an
\* archetype out of a bucket.
C29_ReverseIndex ==
    /\ [](\A c \in DOMAIN archetypes.component_index \cup 0..(Cardinality(Types) - 1) :
            BucketOf(archetypes, c) =
                {a \in 0..(Len(archetypes.archetypes) - 1) :
                    c \in At(archetypes.archetypes, a).components})
    /\ [][\A c \in DOMAIN archetypes.component_index :
            /\ c \in DOMAIN archetypes'.component_index
            /\ archetypes.component_index[c] \subseteq archetypes'.component_index[c]]_vars

\* A despawn has emptied an archetype of two components, which is still in
\* the buckets of both.
C29_Witness ==
    /\ last.op = "despawn"
    /\ \E a \in 0..(Len(archetypes.archetypes) - 1) :
          /\ At(archetypes.archetypes, a).entities = << >>
          /\ Cardinality(At(archetypes.archetypes, a).components) = 2
          /\ \A c \in At(archetypes.archetypes, a).components : a \in BucketOf(archetypes, c)

\* The sum of the lengths of the tables of a list of table ids.
RECURSIVE MatchedLen(_)
MatchedLen(table_ids) ==
    IF table_ids = << >> THEN 0
    ELSE TableLen(TablesGet(tables, Head(table_ids))[1]) + MatchedLen(Tail(table_ids))

\* The query after the next() that returned None for the first time.
RECURSIVE Exhaust(_)
Exhaust(query) ==
    IF QueryNext(query).item = None THEN QueryNext(query).query
    ELSE Exhaust(QueryNext(query).query)

\* C30: a query over registered types yields as many items as the matched
\* tables have rows in total, every row of every matched table exactly once
\* and in the order of the tables, empty tables passed over, then returns
\* None, and every later next() returns None as well.
C30_QueryTerminates ==
    status = "running" =>
        \A shape \in QueryShapes :
            ~QueryPanics(shape) =>
                LET query == QueryNew(shape)
                    visits == QueryVisits(shape)
                    done == Exhaust(query)
                IN  /\ Len(visits) = MatchedLen(query.matched_tables)
                    /\ {visits[k] : k \in 1..Len(visits)} =
                          {<< At(query.matched_tables, t), row >> :
                              t \in 0..(Len(query.matched_tables) - 1),
                              row \in 0..(MaxSpawns - 1)}
                          \cap {at \in (0..(Len(tables.tables) - 1)) \X (0..(MaxSpawns - 1)) :
                                  at[2] < TableLen(At(tables.tables, at[1]))}
                    /\ QueryNext(done).item = None
                    /\ QueryNext(QueryNext(done).query).item = None
                    /\ QueryNext(done).query = done

\* A query matches a table that a despawn emptied and, after it, a table
\* with a row, which it yields.
C30_Witness ==
    /\ status = "running"
    /\ \E shape \in QueryShapes :
          /\ ~QueryPanics(shape)
          /\ Len(QueryNew(shape).matched_tables) = 2
          /\ TableLen(TablesGet(tables, QueryNew(shape).matched_tables[1])[1]) = 0
          /\ Len(QueryVisits(shape)) = 1
          /\ QueryVisits(shape)[1][1] = QueryNew(shape).matched_tables[2]

\* C31: a step changes the generation of a slot only when it is a free of a
\* live handle of that slot, which takes the slot from Occupied to Free; alloc
\* (Ok or Err), set and free of a stale handle leave every generation as it
\* was, and no slot is lost.
C31_GenerationFrame ==
    [][/\ Len(entities'.entities) >= Len(entities.entities)
       /\ \A i \in 0..(Len(entities.entities) - 1) :
             At(entities'.entities, i).generation # At(entities.entities, i).generation =>
                 /\ last'.op = "free"
                 /\ last'.entity.index = i
                 /\ FreeHits(entities, last'.entity)
                 /\ At(entities.entities, i).tag = "Occupied"
                 /\ At(entities'.entities, i).tag = "Free"]_vars

\* A live handle has just been freed while another slot exists: its slot is
\* Free with the next generation.
C31_Witness ==
    /\ last.op = "free"
    /\ last.loc # None
    /\ Len(entities.entities) = 2
    /\ At(entities.entities, last.entity.index).tag = "Free"
    /\ At(entities.entities, last.entity.index).generation =
          U32WrappingInc(last.entity.generation)

\* C32: while a spawn is between the return of its closure and the commit
\* of the slot, the table already holds the entity at the row of the
\* location, every column of the bundle has been written at that row, the
\* archetype holds the record of that row, and the slot is not Occupied for
\* the entity; the next step commits to the slot exactly the location the
\* closure returned, Archetype::allocate's, and changes no table or archetype.
C32_SpawnOrdering ==
    /\ []((last.op = "closure" /\ status = "running") =>
            LET loc == last.loc[1]
                table == At(tables.tables, loc.table_id)
                archetype == At(archetypes.archetypes, loc.archetype_id)
            IN  /\ loc.table_row = TableLen(table) - 1
                /\ At(table.entities, loc.table_row) = last.entity
                /\ \A k \in 1..Len(last.shape) :
                      LET col == table.columns[ComponentIdOf(components, last.shape[k])[1]]
                      IN  /\ loc.table_row < Len(col.mem)
                          /\ \E j \in 1..Len(last.shape) :
                                /\ last.shape[j] = last.shape[k]
                                /\ GetUnchecked(col, loc.table_row) = last.landed[j]
                /\ At(archetype.entities, Len(archetype.entities) - 1) =
                      EntityRecord(last.entity, loc.table_row)
                /\ loc = EntityLocation(archetype.id, archetype.table, loc.table_row)
                /\ archetype.table = loc.table_id
                /\ EntitiesGet(entities, last.entity) = None
                /\ \/ last.entity.index >= Len(entities.entities)
                   \/ At(entities.entities, last.entity.index).tag = "Free")
    /\ [][(last.op = "closure" /\ status = "running") =>
            /\ last'.op = "spawn"
            /\ EntitiesGet(entities', last.entity) = last.loc
            /\ At(entities'.entities, last.entity.index).tag = "Occupied"
            /\ tables' = tables
            /\ archetypes' = archetypes]_vars

\* A second spawn has committed its slot, with a location in a table that
\* held a row already.
C32_Witness ==
    /\ last.op = "spawn"
    /\ status = "running"
    /\ Len(spawned) = 2
    /\ last.loc[1].table_row = 1
    /\ EntitiesGet(entities, last.entity) = last.loc

\* The positions reached by following next_free from `at`, the one the walk
\* stops at included: it stops past the slots, at an Occupied slot, or when
\* `fuel` links have been followed.
RECURSIVE FreeList(_, _, _)
FreeList(E, at, fuel) ==
    IF at >= Len(E.entities) \/ fuel = 0 \/ At(E.entities, at).tag # "Free"
    THEN << at >>
    ELSE << at >> \o FreeList(E, At(E.entities, at).next_free, fuel - 1)

\* C33: free_head is the index of a Free slot or the number of slots;
\* following next_free from it visits every Free slot exactly once and ends
\* at the number of slots; alloc never finds an Occupied slot at the head.
C33_FreeListIntegrity ==
    LET n == Len(entities.entities)
        walk == FreeList(entities, entities.free_head, n + 1)
        free == {i \in 0..(n - 1) : At(entities.entities, i).tag = "Free"}
    IN  /\ \/ entities.free_head = n
           \/ entities.free_head < n /\ At(entities.entities, entities.free_head).tag = "Free"
        /\ walk[Len(walk)] = n
        /\ {walk[k] : k \in 1..(Len(walk) - 1)} = free
        /\ Len(walk) - 1 = Cardinality(free)
        /\ ~AllocCorrupt(entities)
        /\ ~(status = "panicked" /\ last.op = "alloc")

\* Two slots have been freed: the list runs through both.
C33_Witness ==
    /\ last.op = "free"
    /\ Len(FreeList(entities, entities.free_head, Len(entities.entities) + 1)) = 3
    /\ \A i \in 0..(Len(entities.entities) - 1) : At(entities.entities, i).tag = "Free"

\* C34: the allocator's field len is the number of Occupied slots, and is
\* never below zero, whatever allocs (Ok or Err) and frees (of live and of
\* stale handles) came before.
C34_LenCountsOccupied ==
    /\ entities.len =
          Cardinality({i \in 0..(Len(entities.entities) - 1) :
                          At(entities.entities, i).tag = "Occupied"})
    /\ entities.len >= 0

\* A free of a stale handle has returned None with one slot Occupied and one
\* Free.
C34_Witness ==
    /\ last.op = "free"
    /\ last.loc = None
    /\ status = "running"
    /\ Len(entities.entities) = 2
    /\ entities.len = 1
    /\ dead # {}

\* C35: while the program runs there are as many archetypes as tables,
\* archetype a is bound to a table of its own with the same component set,
\* its record list is as long as the table's entity list and holds the same
\* entity at every position, so that the record count is the row the next
\* spawn into the table gets; and no spawn has failed Archetype::allocate's
\* assertion.
C35_Mirroring ==
    /\ status = "running" =>
          /\ Len(archetypes.archetypes) = Len(tables.tables)
          /\ \A a \in 0..(Len(archetypes.archetypes) - 1) :
                LET archetype == At(archetypes.archetypes, a)
                IN  /\ archetype.id = a
                    /\ archetype.table < Len(tables.tables)
                    /\ archetype.components = DOMAIN At(tables.tables, archetype.table).columns
                    /\ Len(archetype.entities) = TableLen(At(tables.tables, archetype.table))
                    /\ \A i \in 0..(Len(archetype.entities) - 1) :
                          At(archetype.entities, i).entity =
                              At(At(tables.tables, archetype.table).entities, i)
                    /\ ~ArchetypeAllocatePanics(
                            archetype, TableLen(At(tables.tables, archetype.table)), TRUE)
          /\ \A a, b \in 0..(Len(archetypes.archetypes) - 1) :
                a # b => At(archetypes.archetypes, a).table # At(archetypes.archetypes, b).table
    /\ ~(status = "panicked" /\ last.op = "spawn")

\* A despawn has moved the last entity of a table into the first row: the
\* table and its archetype both hold that one entity.
C35_Witness ==
    /\ status = "running"
    /\ last.op = "despawn"
    /\ last.loc # None
    /\ \E a \in 0..(Len(archetypes.archetypes) - 1) :
          /\ Len(At(archetypes.archetypes, a).entities) = 1
          /\ At(At(archetypes.archetypes, a).entities, 0).entity # last.entity
          /\ a = last.loc[1].archetype_id
          /\ At(At(tables.tables, last.loc[1].table_id).entities, 0) =
                At(At(archetypes.archetypes, a).entities, 0).entity

\* C36: while the program runs, the record at position i of every archetype's
\* record list has row = i, a record moved by a swap-remove included.
C36_RecordRows ==
    status = "running" =>
        \A a \in 0..(Len(archetypes.archetypes) - 1) :
            \A i \in 0..(Len(At(archetypes.archetypes, a).entities) - 1) :
                At(At(archetypes.archetypes, a).entities, i).row = i

\* The part of C36 that spawns alone establish: until the first despawn that
\* finds its entity, every record's row is its position.
C36_RecordRowsBeforeDespawn ==
    (status = "running" /\ dead = {}) =>
        \A a \in 0..(Len(archetypes.archetypes) - 1) :
            \A i \in 0..(Len(At(archetypes.archetypes, a).entities) - 1) :
                At(At(archetypes.archetypes, a).entities, i).row = i

\* The number of initialize_unchecked calls bundle.get makes on the column of
\* component id `id` for a bundle of the given shape.
Initializations(shape, id) ==
    Cardinality({k \in 1..Len(shape) : ComponentIdOf(components, shape[k]) = Some(id)})

\* C37: every id sequence spawn has passed to the table registry and to the
\* archetype index is strictly ascending, and the spawn that has just
\* returned initialized each column of its table once.
C37_AscendingIds ==
    /\ \A ids \in DOMAIN tables.table_index \cup DOMAIN archetypes.archetype_index :
          StrictlyAscending(ids)
    /\ (last.op = "spawn" /\ status = "running") =>
          \A id \in DOMAIN At(tables.tables, last.loc[1].table_id).columns :
              Initializations(spawned[Len(spawned)].shape, id) = 1

\* C37 for the bundles that do not name a type twice.
C37_AscendingIdsOfDistinctTypes ==
    /\ \A ids \in DOMAIN tables.table_index \cup DOMAIN archetypes.archetype_index :
          (\A j, k \in 1..Len(ids) : j # k => ids[j] # ids[k]) => StrictlyAscending(ids)
    /\ (last.op = "spawn" /\ status = "running"
            /\ Cardinality(TypesOf(Len(spawned))) = Len(spawned[Len(spawned)].shape)) =>
          \A id \in DOMAIN At(tables.tables, last.loc[1].table_id).columns :
              Initializations(spawned[Len(spawned)].shape, id) = 1

\* The live spawns other than those of handle e whose location in the
\* allocator E is not the location `now` holds for them.
Relocated(E, now, e) ==
    {p \in Live : /\ spawned[p].entity # e
                  /\ EntitiesGet(now, spawned[p].entity) # EntitiesGet(E, spawned[p].entity)}

====
